---- MODULE Spec2Model ----
(***************************************************************************)
(* Model of src/agents/agent_base.py: the daily API quota tracker          *)
(* (ApiRateLimiter), persisted in a JSON file, and the chat turn of        *)
(* AgentBase that it gates.                                                *)
(*                                                                         *)
(* Calendar dates are day ordinals: str(date.today()) is an injective      *)
(* rendering of the day, and the code only ever compares two such strings  *)
(* for equality.                                                           *)
(***************************************************************************)
EXTENDS Integers, Sequences, FiniteSets, TLC

\* ------------------------------------------------------------------ bounds
\* The limits a tracker is constructed with are 1..MaxLimit (AgentBase
\* constructs its shared tracker with limit=50).
MaxLimit == 2
MaxDay == 2        \* the calendar runs over days 1..MaxDay (day 0: the day before)
MaxTurns == 2      \* completed chat turns kept in the history store
MaxCalls == 2      \* increment calls each concurrent caller makes

\* --------------------------------------------------------------- constants
SecondsPerHour == 3600
SecondsPerMinute == 60
SecondsPerDay == 86400

NoDate == -1       \* data.get("date") of a record without the field: None
NoCount == -1      \* a record without the "count" field
None == "None"     \* Python's None for an optional string argument

\* ------------------------------------------------------------ storage file
\* What the storage path holds: no file, a file open() refuses, text that is
\* not JSON, JSON that is no object, or a JSON object (fields may be absent).
File(kind, d, c) == [kind |-> kind, date |-> d, count |-> c]

\* json.dump({"date": self.date, "count": self.count}) over the opened file
SaveCounterMut(d, c) == File("record", d, 0)
SaveCounter(d, c) == File("record", d, c)

\* The files found at the first start: none, a damaged one, or a record left
\* by an earlier day (or hand-written without one of its fields).
InitialFiles ==
    {File(k, NoDate, NoCount) : k \in {"missing", "unreadable", "garbage", "nonobject"}}
        \cup {File("record", d, c) : d \in {NoDate, 0}, c \in {NoCount} \cup (0..MaxLimit)}
        \cup {File("record", 1, NoCount)}

\* data.get("count", 0)
GetCountMut(f) == 0
GetCount(f) == IF f.count = NoCount THEN 0 ELSE f.count

\* (a loader that writes the reset record at once on a new day)
LoadCounterMut(f, t) ==
    CASE f.kind \in {"unreadable", "nonobject"} ->
            [ok |-> FALSE, count |-> 0, date |-> NoDate, file |-> f]
      [] f.kind = "record" /\ f.date = t ->
            [ok |-> TRUE, count |-> GetCount(f), date |-> f.date, file |-> f]
      [] OTHER ->
            [ok |-> TRUE, count |-> 0, date |-> t, file |-> SaveCounter(t, 0)]

\* _load_or_initialize_counter: the outcome of construction over file f on
\* day t.  ok = FALSE: an exception leaves the constructor (no tracker).
LoadCounter(f, t) ==
    CASE f.kind = "missing" ->
            [ok |-> TRUE, count |-> 0, date |-> t, file |-> SaveCounter(t, 0)]
      [] f.kind = "garbage" ->      \* json.JSONDecodeError is caught
            [ok |-> TRUE, count |-> 0, date |-> t, file |-> SaveCounter(t, 0)]
      [] f.kind = "unreadable" ->   \* PermissionError is not caught
            [ok |-> FALSE, count |-> 0, date |-> NoDate, file |-> f]
      [] f.kind = "nonobject" ->    \* data.get: AttributeError is not caught
            [ok |-> FALSE, count |-> 0, date |-> NoDate, file |-> f]
      [] f.kind = "record" /\ f.date # t ->
            [ok |-> TRUE, count |-> 0, date |-> t, file |-> f]
      [] OTHER ->
            [ok |-> TRUE, count |-> GetCount(f), date |-> f.date, file |-> f]

\* ----------------------------------------------------------------- tracker
\* increment, lines 81-84: the count after the new-day check
RolledCountMut(d, c, t) == c
RolledCount(d, c, t) == IF d # t THEN 0 ELSE c

\* increment, line 87: the call is allowed
AllowedMut(c, lim) == c <= lim
Allowed(c, lim) == ~(c >= lim)

\* increment, line 91: self.count += 1
IncrementedMut(c) == c + 2
Incremented(c) == c + 1

\* increment as a whole, for a tracker holding date d and count c on day t:
\* what it returns, the record it leaves in memory, and whether it saved it
IncrementResultStale(d, c, t, lim) ==
    LET rc == RolledCount(d, c, t) IN
    IF Allowed(rc, lim)
    THEN [ret |-> TRUE, count |-> Incremented(rc), date |-> d, saved |-> TRUE,
          rolled |-> d # t]
    ELSE [ret |-> FALSE, count |-> rc, date |-> d, saved |-> FALSE,
          rolled |-> d # t]
IncrementResultMut(d, c, t, lim) ==
    LET rc == RolledCount(d, c, t) IN
    IF Allowed(rc, lim)
    THEN [ret |-> TRUE, count |-> Incremented(rc), date |-> t, saved |-> TRUE,
          rolled |-> d # t]
    ELSE [ret |-> FALSE, count |-> Incremented(rc), date |-> t, saved |-> FALSE,
          rolled |-> d # t]
IncrementResult(d, c, t, lim) ==
    LET rc == RolledCount(d, c, t) IN
    IF Allowed(rc, lim)
    THEN [ret |-> TRUE, count |-> Incremented(rc), date |-> t, saved |-> TRUE,
          rolled |-> d # t]
    ELSE [ret |-> FALSE, count |-> rc, date |-> t, saved |-> FALSE,
          rolled |-> d # t]

Max(a, b) == IF a >= b THEN a ELSE b

\* get_remaining
GetRemaining(d, c, t, lim) == IF d # t THEN lim ELSE Max(0, lim - c)

\* _get_time_until_tomorrow at second t of the local day.  delta is
\* tomorrow - now; delta.seconds is the seconds part of the timedelta, which
\* leaves out its days part (at t = 0 the delta is exactly one day).
DeltaSeconds(t) == (SecondsPerDay - t) % SecondsPerDay
HoursUntilTomorrow(t) == DeltaSeconds(t) \div SecondsPerHour
MinutesUntilTomorrow(t) == (DeltaSeconds(t) % SecondsPerHour) \div SecondsPerMinute

\* The seconds of the day at which the model reads the clock
ClockSamples == {0, 43200, 84600}

\* Every whole second of the local day, 00:00:00 to 23:59:59
DaySeconds == 0..(SecondsPerDay - 1)

\* ------------------------------------------------------------------ agents
\* AgentBase.__init__(name, prompt_file, intro_file, session_id): the agents
\* of the process, by their constructor arguments
Agents == {[name |-> "mentor", session_id |-> None],
           [name |-> "coach", session_id |-> "s1"]}

\* self.session_id = session_id if session_id else self.name
DefaultSessionId(a) ==
    IF a.session_id # None /\ a.session_id # "" THEN a.session_id ELSE a.name

\* chat_with_history, lines 228-229
EffectiveSessionIdMut(a, sid) == DefaultSessionId(a)
EffectiveSessionId(a, sid) == IF sid = None THEN DefaultSessionId(a) ELSE sid

\* The session ids a caller passes, and the keys of the history store
SessionArgs == {None, "mentor", "s1"}
SessionIds == {"mentor", "s1"}

UserInputs == {"hello", "bye"}

\* [HumanMessage(content=user_input)]
HumanMessages(u) == <<[role |-> "human", content |-> u]>>
AIMessage(r) == [role |-> "ai", content |-> r]

\* RunnableWithMessageHistory over get_session_history: the messages handed
\* to the chain are the stored messages of the session followed by the input
ChainInput(store, sid, msgs) == store[sid] \o msgs
\* ... and after the chain returns, the input and the output are appended
StoreAfterTurn(store, sid, msgs, out) ==
    [store EXCEPT ![sid] = @ \o msgs \o <<out>>]

\* The completion capability (external): the response texts the model lets it
\* give to the messages msgs, one per final user message
Completions(msgs) ==
    IF msgs[Len(msgs)].content = "hello" THEN {"hi there"} ELSE {"so long"}

\* Texts are sequences of string pieces.  return response.content
ChatReturnMut(response) == <<"hi there">>
ChatReturn(response) == <<response.content>>

\* _get_time_until_tomorrow: the f-string "{hours}h{minutes}m" (the source
\* writes the two units in Chinese)
TimeUntilTomorrow(t) ==
    <<ToString(HoursUntilTomorrow(t)), "h", ToString(MinutesUntilTomorrow(t)), "m">>

\* check_api_limit: the message of the RateLimitExceededError it raises
LimitMessage(t) ==
    <<"daily API limit (50) reached, wait ">> \o TimeUntilTomorrow(t) \o <<" and retry">>

\* chat_with_history, line 235: the apology returned for the caught error
DenialTextMut(t) == <<"Sorry, ", "daily API limit (50) reached">>
DenialText(t) == <<"Sorry, ">> \o LimitMessage(t)

\* chat_with_history, lines 232-235: the except clause around check_api_limit
\* is the only one, and it names RateLimitExceededError
CaughtByChatMut(e) == TRUE
CaughtByChat(e) == e = "RateLimitExceededError"

\* ------------------------------------------------------ agent construction
\* os.getenv("DASHSCOPE_API_KEY"): not set, empty, blank, or a key
Unset == "<unset>"
Credentials == {Unset, "", "  ", "sk-key"}

\* str.strip()
Strip(v) == IF v \in {"", "  "} THEN "" ELSE v

\* What the prompt file and the intro file hold (intro_file may be None)
PromptSources == {"text", "missing"}
IntroSources == {None, "messages", "missing", "invalid"}

\* The constructor arguments tried: those of the process's agents, and an
\* empty session id
AgentArgs == Agents \cup {[name |-> "coach", session_id |-> ""]}

\* An agent under construction: what it has loaded and bound so far, and
\* the credential create_chatbot read ("n/a": it was not reached)
NoAgent == [status |-> "none", error |-> "", name |-> "", session_id |-> "",
            prompt |-> FALSE, intro |-> FALSE, intro_messages |-> "[]",
            cred |-> "n/a", bound |-> FALSE, key |-> ""]

\* create_chatbot, lines 160-176, with the credential v of the environment:
\* the error it raises ("" for none).  getenv gives None for a variable that
\* is not set, and None has no strip().
CreateChatbotError(v) ==
    IF v = Unset THEN "AttributeError"
    ELSE IF Strip(v) = "" THEN "ValueError"
    ELSE ""

\* AgentBase.__init__(name, prompt_file, intro_file, session_id): load_prompt,
\* load_intro, create_chatbot in that order; the first error ends it.
NewAgent(a, prompt, intro, v) ==
    LET base == [NoAgent EXCEPT !.name = a.name, !.session_id = DefaultSessionId(a)]
    IN
    IF prompt = "missing"
    THEN [base EXCEPT !.status = "failed", !.error = "FileNotFoundError"]
    ELSE IF intro = "missing"
    THEN [base EXCEPT !.status = "failed", !.error = "FileNotFoundError",
                      !.prompt = TRUE]
    ELSE IF intro = "invalid"
    THEN [base EXCEPT !.status = "failed", !.error = "ValueError:json",
                      !.prompt = TRUE]
    ELSE LET loaded == [base EXCEPT !.prompt = TRUE, !.intro = TRUE, !.cred = v,
                                    !.intro_messages =
                                        IF intro = None THEN "[]" ELSE intro]
         IN IF CreateChatbotError(v) # ""
            THEN [loaded EXCEPT !.status = "failed", !.error = CreateChatbotError(v)]
            ELSE [loaded EXCEPT !.status = "usable", !.bound = TRUE,
                                !.key = Strip(v)]

\* Concurrent callers of increment and the processes they run in
Callers == {"c1", "c2"}
Procs == {"p1", "p2"}

\* -------------------------------------------------------------------- state
VARIABLES
    today,      \* the calendar day, date.today()
    file,       \* the storage file
    limit,      \* ApiRateLimiter.limit
    tracker,    \* "none": process not started, "live", "failed": import raised
    count,      \* ApiRateLimiter.count
    date,       \* ApiRateLimiter.date
    history,    \* the history store: session id -> messages
    granted,    \* the increment calls that returned True since midnight
    llmCalls,   \* the invocations of the completion capability since midnight
    last,       \* the last operation and what it returned
    env,        \* the environment's DASHSCOPE_API_KEY
    built,      \* the outcome of the last AgentBase construction
    owner,      \* concurrent callers: the process (tracker) each one uses
    mem,        \* per process, the count and date its tracker holds
    pc,         \* per caller, where it is inside increment
    chk,        \* per caller, the count it compared with the limit (line 87)
    reg,        \* per caller, the count it read for self.count += 1 (line 91)
    calls,      \* per caller, the increment calls it has started
    writing,    \* _save_counter has opened the file and not yet written it
    prev,       \* the file as it was when that _save_counter began
    now         \* the second of the local day, where a specification follows it

\* The variables of the tracker and the chat turn, and the others
coreVars == <<today, file, limit, tracker, count, date, history, granted, llmCalls>>
raceVars == <<owner, mem, pc, chk, reg, calls>>
saveVars == <<writing, prev>>
auxVars == <<env, built, raceVars, saveVars, now>>
vars == <<coreVars, last, auxVars>>

\* No write of the storage file is under way.
SaveIdle ==
    /\ writing = FALSE
    /\ prev = File("missing", NoDate, NoCount)

\* No concurrent caller is at work.
RaceIdle ==
    /\ owner = [c \in Callers |-> "p1"]
    /\ mem = [p \in Procs |-> [count |-> 0, date |-> NoDate]]
    /\ pc = [c \in Callers |-> "idle"]
    /\ chk = [c \in Callers |-> 0]
    /\ reg = [c \in Callers |-> 0]
    /\ calls = [c \in Callers |-> 0]

NoOp == [op |-> "none", outcome |-> "none", value |-> -1, rolled |-> FALSE,
         text |-> <<>>, hours |-> -1, minutes |-> -1, agent |-> None,
         sidArg |-> None, session |-> None, input |-> "", sent |-> <<>>,
         response |-> "", error |-> "", clock |-> -1]

Turns == LET RECURSIVE Sum(_)
             Sum(S) == IF S = {} THEN 0
                       ELSE LET s == CHOOSE x \in S : TRUE
                            IN Len(history[s]) + Sum(S \ {s})
         IN Sum(SessionIds) \div 2

Init ==
    /\ today = 1
    /\ file \in InitialFiles
    /\ limit \in 1..MaxLimit
    /\ tracker = "none"
    /\ count = 0
    /\ date = NoDate
    /\ history = [s \in SessionIds |-> <<>>]
    /\ granted = 0
    /\ llmCalls = 0
    /\ last = NoOp
    /\ env = "sk-key"
    /\ built = NoAgent
    /\ RaceIdle
    /\ SaveIdle
    /\ now = 0

\* The process starts (or restarts): the class body of AgentBase constructs
\* the shared ApiRateLimiter from the storage file.
Construct ==
    LET r == LoadCounter(file, today) IN
    /\ tracker' = IF r.ok THEN "live" ELSE "failed"
    /\ count' = r.count
    /\ date' = r.date
    /\ file' = r.file
    /\ last' = [NoOp EXCEPT !.op = "construct",
                            !.outcome = IF r.ok THEN "returned" ELSE "raised",
                            !.value = IF r.ok
                                      THEN GetRemaining(r.date, r.count, today, limit)
                                      ELSE -1]
    /\ UNCHANGED <<today, limit, history, granted, llmCalls, auxVars>>

\* Midnight passes.
AdvanceDay ==
    /\ today < MaxDay
    /\ today' = today + 1
    /\ granted' = 0
    /\ llmCalls' = 0
    /\ last' = [NoOp EXCEPT !.op = "advance"]
    /\ UNCHANGED <<file, limit, tracker, count, date, history, auxVars>>

\* ApiRateLimiter.increment(), called on the tracker directly
Increment ==
    /\ tracker = "live"
    /\ LET r == IncrementResult(date, count, today, limit) IN
        /\ count' = r.count
        /\ date' = r.date
        /\ file' = IF r.saved THEN SaveCounter(r.date, r.count) ELSE file
        /\ granted' = IF r.ret THEN granted + 1 ELSE granted
        /\ last' = [NoOp EXCEPT !.op = "increment",
                                !.outcome = IF r.ret THEN "true" ELSE "false",
                                !.rolled = r.rolled]
    /\ UNCHANGED <<today, limit, tracker, history, llmCalls, auxVars>>

\* ApiRateLimiter.get_remaining() / AgentBase.get_remaining_calls()
Remaining ==
    /\ tracker = "live"
    /\ last' = [NoOp EXCEPT !.op = "remaining", !.outcome = "returned",
                            !.value = GetRemaining(date, count, today, limit)]
    /\ UNCHANGED <<coreVars, auxVars>>

\* AgentBase.chat_with_history(user_input, session_id) on agent a.  The
\* completion capability either returns a response or raises.  (The store
\* takes no allowed turn once it holds MaxTurns of them.)
ChatWithHistory(a, sid, u) ==
    /\ tracker = "live"
    /\ LET session == EffectiveSessionId(a, sid)
           r == IncrementResult(date, count, today, limit)
           op == [NoOp EXCEPT !.op = "chat", !.agent = a.name, !.sidArg = sid,
                              !.session = session, !.input = u,
                              !.rolled = r.rolled]
       IN
        /\ r.ret => Turns < MaxTurns
        /\ count' = r.count
        /\ date' = r.date
        /\ file' = IF r.saved THEN SaveCounter(r.date, r.count) ELSE file
        /\ granted' = IF r.ret THEN granted + 1 ELSE granted
        /\ IF ~r.ret
           THEN \* check_api_limit raises, chat_with_history returns the apology
                /\ \E t \in ClockSamples :
                      last' = IF CaughtByChat("RateLimitExceededError")
                              THEN [op EXCEPT !.outcome = "denied",
                                              !.error = "RateLimitExceededError",
                                              !.clock = t,
                                              !.text = DenialText(t),
                                              !.hours = HoursUntilTomorrow(t),
                                              !.minutes = MinutesUntilTomorrow(t)]
                              ELSE [op EXCEPT !.outcome = "raised",
                                              !.error = "RateLimitExceededError"]
                /\ UNCHANGED <<llmCalls, history>>
           ELSE /\ llmCalls' = llmCalls + 1
                /\ LET sent == ChainInput(history, session, HumanMessages(u)) IN
                   \/ \E resp \in Completions(sent) :
                         /\ history' = StoreAfterTurn(history, session,
                                                      HumanMessages(u), AIMessage(resp))
                         /\ last' = [op EXCEPT !.outcome = "returned", !.sent = sent,
                                               !.response = resp,
                                               !.text = ChatReturn(AIMessage(resp))]
                   \/ \* the capability raises (network, auth, malformed response)
                      /\ history' = history
                      /\ last' = IF CaughtByChat("ProviderError")
                                 THEN [op EXCEPT !.outcome = "denied", !.sent = sent,
                                                 !.error = "ProviderError",
                                                 !.text = <<"Sorry, ", "ProviderError">>]
                                 ELSE [op EXCEPT !.outcome = "raised", !.sent = sent,
                                                 !.error = "ProviderError"]
    /\ UNCHANGED <<today, limit, tracker, auxVars>>

Chat == \E a \in Agents, sid \in SessionArgs, u \in UserInputs : ChatWithHistory(a, sid, u)

Next == Construct \/ AdvanceDay \/ Increment \/ Remaining \/ Chat

Spec == Init /\ [][Next]_vars

\* --------------------------- specification: a file the tracker itself wrote
\* The file is missing, or holds a record that a tracker with this limit
\* wrote on the day before or earlier this day (its count then being the
\* increments that succeeded so far this day).
WrittenFiles(lim) ==
    {File("missing", NoDate, NoCount)}
        \cup {File("record", d, c) : d \in {0, 1}, c \in 0..lim}

InitWritten ==
    /\ today = 1
    /\ limit \in 1..MaxLimit
    /\ file \in WrittenFiles(limit)
    /\ tracker = "none"
    /\ count = 0
    /\ date = NoDate
    /\ history = [s \in SessionIds |-> <<>>]
    /\ granted = IF file.kind = "record" /\ file.date = today THEN file.count ELSE 0
    /\ llmCalls = 0
    /\ last = NoOp
    /\ env = "sk-key"
    /\ built = NoAgent
    /\ RaceIdle
    /\ SaveIdle
    /\ now = 0

SpecWritten == InitWritten /\ [][Next]_vars

\* ------------------------------------- specification: denial round the clock
\* The day's quota is used up; a chat call is made at some second of the day.
InitClock ==
    /\ today = 1
    /\ limit = 1
    /\ file = File("record", 1, 1)
    /\ tracker = "live"
    /\ count = 1
    /\ date = 1
    /\ history = [s \in SessionIds |-> <<>>]
    /\ granted = 1
    /\ llmCalls = 1
    /\ last = NoOp
    /\ env = "sk-key"
    /\ built = NoAgent
    /\ RaceIdle
    /\ SaveIdle
    /\ now \in DaySeconds

\* chat_with_history("hello") on the mentor agent at second t of the day,
\* denied by check_api_limit
DeniedChatAt(t) ==
    /\ tracker = "live"
    /\ LET r == IncrementResult(date, count, today, limit) IN
        /\ ~r.ret
        /\ count' = r.count
        /\ date' = r.date
    /\ last' = [NoOp EXCEPT !.op = "chat", !.outcome = "denied",
                            !.agent = "mentor", !.session = "mentor",
                            !.input = "hello",
                            !.error = "RateLimitExceededError",
                            !.clock = t,
                            !.text = DenialText(t),
                            !.hours = HoursUntilTomorrow(t),
                            !.minutes = MinutesUntilTomorrow(t)]
    /\ UNCHANGED <<today, file, limit, tracker, history, granted, llmCalls, auxVars>>

NextClock == DeniedChatAt(now)

SpecClock == InitClock /\ [][NextClock]_vars

\* ----------------------------------------- specification: agent construction
\* The environment is set up, and agents are constructed over what the prompt
\* and intro paths hold; the tracker is left out of it.
InitAgent ==
    /\ today = 1
    /\ file = File("missing", NoDate, NoCount)
    /\ limit = 1
    /\ tracker = "none"
    /\ count = 0
    /\ date = NoDate
    /\ history = [s \in SessionIds |-> <<>>]
    /\ granted = 0
    /\ llmCalls = 0
    /\ last = NoOp
    /\ env \in Credentials
    /\ built = NoAgent
    /\ RaceIdle
    /\ SaveIdle
    /\ now = 0

\* The process environment changes between two constructions.
SetEnv ==
    /\ \E v \in Credentials : v # env /\ env' = v
    /\ UNCHANGED <<coreVars, last, built, raceVars, saveVars, now>>

\* AgentBase.__init__ for agent a
ConstructAgent ==
    /\ \E a \in AgentArgs, prompt \in PromptSources, intro \in IntroSources :
          built' = NewAgent(a, prompt, intro, env)
    /\ UNCHANGED <<coreVars, last, env, raceVars, saveVars, now>>

NextAgent == SetEnv \/ ConstructAgent

SpecAgent == InitAgent /\ [][NextAgent]_vars

\* ------------------------------------ specification: interrupted file write
\* open(path, "w") of _save_counter, line 70: the file is truncated before
\* json.dump writes the record into it; a file cut short is no JSON.
Truncated == File("garbage", NoDate, NoCount)

\* increment up to the open() of its _save_counter (a denied call ends here).
\* (Restarts over a cut-short file reset the count, so the writes of a day
\* are capped at MaxLimit.)
IncrementOpen ==
    /\ tracker = "live"
    /\ ~writing
    /\ LET r == IncrementResult(date, count, today, limit) IN
        /\ r.saved => granted < MaxLimit
        /\ count' = r.count
        /\ date' = r.date
        /\ IF r.saved
           THEN /\ file' = Truncated
                /\ writing' = TRUE
                /\ prev' = file
                /\ last' = [NoOp EXCEPT !.op = "increment", !.outcome = "writing",
                                        !.rolled = r.rolled,
                                        !.value = GetRemaining(date, count, today, limit)]
           ELSE /\ last' = [NoOp EXCEPT !.op = "increment", !.outcome = "false",
                                        !.rolled = r.rolled]
                /\ UNCHANGED <<file, writing, prev>>
    /\ UNCHANGED <<today, limit, tracker, history, granted, llmCalls, env, built, raceVars, now>>

\* json.dump completes, the file is closed, increment returns True
IncrementWritten ==
    /\ tracker = "live"
    /\ writing
    /\ file' = SaveCounter(date, count)
    /\ writing' = FALSE
    /\ granted' = granted + 1
    /\ last' = [NoOp EXCEPT !.op = "increment", !.outcome = "true"]
    /\ UNCHANGED <<today, limit, tracker, count, date, history, llmCalls, env, built,
                   raceVars, prev, now>>

\* The process stops (killed, power lost): its tracker is gone, the file
\* stays as it is.
Kill ==
    /\ tracker = "live"
    /\ tracker' = "none"
    /\ count' = 0
    /\ date' = NoDate
    /\ writing' = FALSE
    /\ last' = [NoOp EXCEPT !.op = "kill",
                            !.outcome = IF writing THEN "writing" ELSE "none"]
    /\ UNCHANGED <<today, file, limit, history, granted, llmCalls, env, built, raceVars,
                   prev, now>>

NextCrash ==
    \/ ~writing /\ Construct
    \/ ~writing /\ AdvanceDay
    \/ ~writing /\ Remaining
    \/ IncrementOpen
    \/ IncrementWritten
    \/ Kill

SpecCrash == Init /\ [][NextCrash]_vars

\* ------------------------------------- specification: concurrent increments
\* Two callers run increment with no lock around it: two threads on the one
\* tracker of a process, or two processes whose trackers were built from the
\* same storage file.  Each caller takes the steps of lines 81-93 one at a
\* time; the day does not change.  The trackers hold the record {d, c} of the
\* file (d an earlier day: they have been live since then).
InitRace ==
    /\ today = 1
    /\ limit \in 1..MaxLimit
    /\ \E d \in {0, 1}, c \in 0..limit :
          /\ file = File("record", d, c)
          /\ mem = [p \in Procs |-> [count |-> c, date |-> d]]
          /\ granted = IF d = today THEN c ELSE 0
    /\ tracker = "live"
    /\ count = 0
    /\ date = NoDate
    /\ history = [s \in SessionIds |-> <<>>]
    /\ llmCalls = 0
    /\ last = NoOp
    /\ env = "sk-key"
    /\ built = NoAgent
    /\ owner \in {[c \in Callers |-> "p1"],
                   [c \in Callers |-> IF c = "c1" THEN "p1" ELSE "p2"]}
    /\ pc = [c \in Callers |-> "idle"]
    /\ chk = [c \in Callers |-> 0]
    /\ reg = [c \in Callers |-> 0]
    /\ calls = [c \in Callers |-> 0]
    /\ SaveIdle
    /\ now = 0

raceFrame == <<today, limit, tracker, count, date, history, llmCalls, env, built, owner,
               saveVars, now>>

\* increment, lines 81-88: the new-day check and the limit check
RaceCheck(c) ==
    LET p == owner[c]
        rc == RolledCount(mem[p].date, mem[p].count, today)
    IN
    /\ pc[c] = "idle"
    /\ calls[c] < MaxCalls
    /\ calls' = [calls EXCEPT ![c] = @ + 1]
    /\ mem' = [mem EXCEPT ![p] = [count |-> rc, date |-> today]]
    /\ chk' = [chk EXCEPT ![c] = rc]
    /\ IF Allowed(rc, limit)
       THEN /\ pc' = [pc EXCEPT ![c] = "load"]
            /\ last' = last
       ELSE /\ pc' = pc
            /\ last' = [NoOp EXCEPT !.op = "increment", !.outcome = "false"]
    /\ UNCHANGED <<raceFrame, file, granted, reg>>

\* increment, line 91: self.count += 1 reads self.count ...
RaceLoad(c) ==
    /\ pc[c] = "load"
    /\ reg' = [reg EXCEPT ![c] = mem[owner[c]].count]
    /\ pc' = [pc EXCEPT ![c] = "store"]
    /\ UNCHANGED <<raceFrame, file, granted, mem, chk, calls, last>>

\* ... and writes the sum back
RaceStore(c) ==
    /\ pc[c] = "store"
    /\ mem' = [mem EXCEPT ![owner[c]].count = Incremented(reg[c])]
    /\ pc' = [pc EXCEPT ![c] = "save"]
    /\ UNCHANGED <<raceFrame, file, granted, chk, reg, calls, last>>

\* increment, lines 92-93: _save_counter() and return True
RaceSave(c) ==
    /\ pc[c] = "save"
    /\ file' = SaveCounter(mem[owner[c]].date, mem[owner[c]].count)
    /\ granted' = granted + 1
    /\ pc' = [pc EXCEPT ![c] = "idle"]
    /\ last' = [NoOp EXCEPT !.op = "increment", !.outcome = "true"]
    /\ UNCHANGED <<raceFrame, mem, chk, reg, calls>>

NextRace == \E c \in Callers : RaceCheck(c) \/ RaceLoad(c) \/ RaceStore(c) \/ RaceSave(c)

SpecRace == InitRace /\ [][NextRace]_vars

\* ------------------------------------------------------------- properties
\* remaining() of the live tracker, and of a tracker constructed now from the
\* same storage path with the same limit (-1: the constructor raises)
LiveRemaining == GetRemaining(date, count, today, limit)
FreshRemaining ==
    LET r == LoadCounter(file, today) IN
    IF r.ok THEN GetRemaining(r.date, r.count, today, limit) ELSE -1

\* C1: over any sequence of chat calls, restarts and day advances, the chat
\* calls that reached the completion capability since midnight never exceed
\* the configured limit.
C1_DailyCap == llmCalls <= limit

\* A restart on a later day than the first, with the day's cap already used
\* up by chat calls and the rebuilt tracker still holding it.
C1_Witness ==
    /\ last.op = "construct"
    /\ tracker = "live"
    /\ today > 1
    /\ llmCalls = limit
    /\ count = limit

\* C2: once the allowed chat turns of all agents and sessions together have
\* reached the limit on a day, a chat call on any agent with any session id
\* is denied: it reaches no capability and extends no history.
C2_GlobalQuota ==
    [][(last'.op = "chat" /\ today' = today /\ llmCalls >= limit)
         => (last'.outcome = "denied" /\ llmCalls' = llmCalls /\ history' = history)]_vars

\* Two turns, one in each session, used the limit of 2; the coach agent is
\* then denied on the session mentor used.
C2_Witness ==
    /\ limit = 2
    /\ llmCalls = 2
    /\ Len(history["mentor"]) = 2
    /\ Len(history["s1"]) = 2
    /\ last.op = "chat"
    /\ last.outcome = "denied"
    /\ last.agent = "coach"
    /\ last.session = "mentor"

\* C3: from a tracker holding count c for the current day with c + 1 <= limit,
\* tryIncrement returns true and remaining() after it is exactly 1 less than
\* before it (so k consecutive calls with c + k <= limit all do).
C3_IncrementWithinLimit ==
    [][(last'.op = "increment" /\ date = today /\ count + 1 <= limit)
         => (last'.outcome = "true" /\ LiveRemaining' = LiveRemaining - 1)]_vars

\* The second of two allowed increments of a day: remaining() went 1 -> 0.
C3_Witness ==
    /\ last.op = "increment"
    /\ last.outcome = "true"
    /\ ~last.rolled
    /\ limit = 2
    /\ count = 2
    /\ LiveRemaining = 0

\* C4: once limit tryIncrement calls have succeeded on a day, a further
\* tryIncrement on that day returns false, changes neither the file nor the
\* in-memory count, and remaining() is 0 before and after it.
C4_DeniedAtLimit ==
    [][(last'.op = "increment" /\ today' = today /\ granted >= limit)
         => /\ last'.outcome = "false"
            /\ file' = file
            /\ count' = count
            /\ LiveRemaining = 0
            /\ LiveRemaining' = 0]_vars

\* limit = 2: after two increments that returned true, the third returned false.
C4_Witness ==
    /\ limit = 2
    /\ granted = 2
    /\ last.op = "increment"
    /\ last.outcome = "false"
    /\ file = File("record", today, 2)
    /\ LiveRemaining = 0

\* C5: whenever the stored record's date differs from the current date,
\* whatever its count, remaining() returns limit (from a live tracker and
\* from one just constructed), and tryIncrement returns true and leaves the
\* record {today, 1} in memory and in the file.
C5_DayRollover ==
    [][(file.kind = "record" /\ file.date # today)
         => /\ last'.op = "remaining" => last'.value = limit
            /\ last'.op = "construct" => (tracker' = "live" /\ last'.value = limit)
            /\ last'.op = "increment"
                 => /\ last'.outcome = "true"
                    /\ count' = 1
                    /\ date' = today
                    /\ file' = File("record", today, 1)]_vars

\* A live tracker that used up its limit yesterday crossed midnight, and its
\* first increment of the new day took the new-day branch.
C5_Witness ==
    /\ last.op = "increment"
    /\ last.rolled
    /\ last.outcome = "true"
    /\ today > 1
    /\ granted = 1
    /\ file = File("record", today, 1)

\* C6: in every state of a live tracker, a fresh tracker constructed from the
\* same storage with the same limit reports the same remaining().
C6_RoundTrip == tracker = "live" => FreshRemaining = LiveRemaining

\* A restart that read back a positive count written earlier the same day.
C6_Witness ==
    /\ last.op = "construct"
    /\ tracker = "live"
    /\ count > 0
    /\ date = today
    /\ last.value = limit - count

\* C7: construction over a missing, unreadable or corrupt file never fails:
\* it yields count 0, date today, remaining() = limit and the fresh record
\* {today, 0} in the file; a record without its count is read as count 0.
C7_ConstructNeverFails ==
    [][last'.op = "construct"
         => /\ file.kind \in {"missing", "unreadable", "garbage", "nonobject"}
                 => /\ tracker' = "live"
                    /\ count' = 0
                    /\ date' = today
                    /\ last'.value = limit
                    /\ file' = File("record", today, 0)
            /\ (file.kind = "record" /\ file.count = NoCount)
                 => (tracker' = "live" /\ count' = 0)]_vars

\* C8: a chat call whose increment the tracker denies returns the apology
\* with the hours-and-minutes countdown in it, raises nothing, reaches no
\* capability and appends to no history.
C8_DenialIsQuiet ==
    [][(last'.op = "chat" /\ ~IncrementResult(date, count, today, limit).ret)
         => /\ last'.outcome = "denied"
            /\ llmCalls' = llmCalls
            /\ history' = history
            /\ last'.sent = <<>>
            /\ \E t \in ClockSamples :
                  /\ last'.hours = HoursUntilTomorrow(t)
                  /\ last'.minutes = MinutesUntilTomorrow(t)
            /\ Len(last'.text) >= 6
            /\ SubSeq(last'.text, 3, 6)
                  = <<ToString(last'.hours), "h", ToString(last'.minutes), "m">>]_vars

\* A denied chat call, half an hour before midnight, with a turn on record.
C8_Witness ==
    /\ last.op = "chat"
    /\ last.outcome = "denied"
    /\ last.hours = 0
    /\ last.minutes = 30
    /\ Len(history["s1"]) = 2

\* C9: a chat call the tracker allows invokes the capability exactly once,
\* with the effective session's prior history followed by the new user
\* message; when the capability answers, the call returns exactly its text
\* and the session's history grows by the user message and the response.
C9_AllowedTurn ==
    [][(last'.op = "chat" /\ IncrementResult(date, count, today, limit).ret)
         => LET sid == last'.session
                user == [role |-> "human", content |-> last'.input]
            IN /\ llmCalls' = llmCalls + 1
               /\ last'.sent = history[sid] \o <<user>>
               /\ last'.outcome \in {"returned", "raised"}
               /\ last'.outcome = "returned"
                    => /\ last'.text = <<last'.response>>
                       /\ history'[sid] = history[sid] \o
                             <<user, [role |-> "ai", content |-> last'.response]>>]_vars

\* A second turn in a session: the capability saw the first turn and the
\* new message, and its answer "so long" came back.
C9_Witness ==
    /\ last.op = "chat"
    /\ last.outcome = "returned"
    /\ Len(last.sent) = 3
    /\ last.text = <<"so long">>
    /\ Len(history[last.session]) = 4

\* The session id a call is meant to use: the explicit one, else the agent's
\* constructor session id, else its name.
ExpectedSession(name, sidArg) ==
    LET a == CHOOSE x \in Agents : x.name = name IN
    IF sidArg # None THEN sidArg
    ELSE IF a.session_id # None THEN a.session_id ELSE a.name

\* C10: a chat call reads and extends only the history of its effective
\* session (the explicit id, else the agent's default); every other
\* session's history is unchanged.
C10_SessionIsolation ==
    [][last'.op = "chat"
         => LET sid == ExpectedSession(last'.agent, last'.sidArg) IN
            /\ last'.session = sid
            /\ \A s \in SessionIds \ {sid} : history'[s] = history[s]
            /\ last'.outcome = "returned"
                 => /\ history'[sid] # history[sid]
                    /\ SubSeq(last'.sent, 1, Len(last'.sent) - 1) = history[sid]]_vars

\* The mentor agent answered on the explicit session "s1", which already
\* held a turn, while the mentor session's own history stayed as it was.
C10_Witness ==
    /\ last.op = "chat"
    /\ last.outcome = "returned"
    /\ last.agent = "mentor"
    /\ last.sidArg = "s1"
    /\ Len(history["s1"]) = 4
    /\ Len(history["mentor"]) = 0

\* C11: a failure of the completion capability in an allowed chat call is
\* not turned into a string: the call ends by raising that error, and the
\* only error that ends a call with the apology text is the quota error.
C11_ProviderErrorPropagates ==
    [][last'.op = "chat"
         => /\ last'.error = "ProviderError"
                 => (last'.outcome = "raised" /\ last'.text = <<>>)
            /\ last'.outcome = "denied"
                 <=> last'.error = "RateLimitExceededError"
            /\ last'.outcome = "denied"
                 <=> ~IncrementResult(date, count, today, limit).ret]_vars

\* An allowed chat call whose capability raised, in a session with a turn.
C11_Witness ==
    /\ last.op = "chat"
    /\ last.outcome = "raised"
    /\ last.error = "ProviderError"
    /\ Len(last.sent) = 3
    /\ llmCalls > 0

\* C12: constructing an agent while the credential is not set fails with
\* the configuration error (the ValueError of create_chatbot), after prompt
\* and intro were loaded and before a capability is bound; no usable agent.
C12_UnsetCredentialIsConfigError ==
    built.cred = Unset
        => /\ built.status = "failed"
           /\ built.error = "ValueError"
           /\ built.prompt
           /\ built.intro
           /\ ~built.bound

\* C13: without serialization every caller that compared a count below the
\* limit goes on to return true, whatever the other caller did meanwhile;
\* so two callers that both read limit - 1 both succeed (the witness), and
\* more than limit increments succeed on the day.
C13_LostUpdate ==
    [][\A c \in Callers :
         (pc[c] = "save" /\ pc'[c] = "idle")
            => /\ chk[c] < limit
               /\ last'.outcome = "true"
               /\ granted' = granted + 1
               /\ file' = File("record", today, mem[owner[c]].count)]_vars

\* Two threads on one tracker each made one call, both compared the count
\* limit - 1, both returned true: limit + 1 increments succeeded today and
\* the file holds count = limit.
C13_Witness ==
    /\ owner["c1"] = owner["c2"]
    /\ \A c \in Callers : pc[c] = "idle" /\ calls[c] = 1 /\ chk[c] = limit - 1
    /\ granted = limit + 1
    /\ file = File("record", today, limit)

\* C14: the record write of a successful tryIncrement is atomic: wherever
\* the process may stop during it, the file holds the complete previous
\* record or the complete new one.
C14_AtomicWrite ==
    writing => (file = prev \/ file = File("record", date, count))

\* C15: the storage file is written only by a successful tryIncrement (a
\* direct one or that of an allowed chat call) and by construction over a
\* missing or corrupt file.  remaining() changes neither the record in
\* memory nor the file, a denied tryIncrement leaves the file alone, and
\* construction over a well-formed file of an older date puts {today, 0} in
\* memory and leaves the file as it is.
C15_LazyWrite ==
    [][/\ file' # file
            => \/ last'.op = "increment" /\ last'.outcome = "true"
               \/ last'.op = "chat" /\ IncrementResult(date, count, today, limit).ret
               \/ last'.op = "construct" /\ file.kind \in {"missing", "garbage"}
       /\ last'.op = "remaining"
            => (count' = count /\ date' = date /\ file' = file)
       /\ (last'.op = "increment" /\ last'.outcome = "false") => file' = file
       /\ (last'.op = "chat" /\ last'.outcome = "denied") => file' = file
       /\ (last'.op = "construct" /\ file.kind = "record"
              /\ file.date # NoDate /\ file.date < today)
            => (tracker' = "live" /\ count' = 0 /\ date' = today /\ file' = file)]_vars

\* A restart on the second day over the record {first day, 2} that the
\* increments of the first day wrote: memory is reset, the file is not.
C15_Witness ==
    /\ last.op = "construct"
    /\ tracker = "live"
    /\ today = 2
    /\ file = File("record", 1, 2)
    /\ count = 0
    /\ date = today

\* C16: from a missing file or a file written by a tracker with the same
\* limit, over any sequence of increments, remaining queries, chat calls,
\* restarts and day advances, the count in memory and the count in the file
\* stay within 0..limit.
C16_CountBound ==
    /\ tracker = "live" => (0 <= count /\ count <= limit)
    /\ file.kind = "record" => (0 <= file.count /\ file.count <= limit)

\* On the second day the limit was used up again and a further increment
\* was denied: memory and file both hold the limit.
C16_Witness ==
    /\ today = 2
    /\ limit = 2
    /\ last.op = "increment"
    /\ last.outcome = "false"
    /\ count = limit
    /\ file = File("record", today, limit)

\* C17 as stated: after every tracker access (construction, tryIncrement --
\* direct or through a chat call -- or remaining) returns, the date of the
\* record in memory is the calendar date of that access.
C17_DateCurrency ==
    [][(last'.op \in {"construct", "increment", "chat", "remaining"}
          /\ tracker' = "live")
         => date' = today]_vars

\* C17, amended: construction and tryIncrement leave the date of the record
\* in memory equal to the calendar date of the access; remaining() leaves
\* the date as it was, which after midnight is the earlier day, and answers
\* from the comparison alone.
C17_DateCurrencyExceptRemaining ==
    [][/\ (last'.op \in {"construct", "increment", "chat"} /\ tracker' = "live")
            => date' = today
       /\ last'.op = "remaining"
            => /\ date' = date
               /\ date # today => last'.value = limit]_vars

\* remaining() was asked after midnight of a tracker that had counted calls
\* the day before: it answered limit and the record still has the old date.
C17_Witness ==
    /\ last.op = "remaining"
    /\ today = 2
    /\ date = 1
    /\ count > 0
    /\ last.value = limit

\* C18: for every second t of the day (0..86399) at which the denial
\* message is built, the hours H and minutes M it reports are the whole
\* hours and minutes from t to the next local midnight: 0 <= M <= 59 and
\* H*3600 + M*60 <= 86400 - t < H*3600 + M*60 + 60.
C18_CountdownValue ==
    (last.op = "chat" /\ last.outcome = "denied")
        => LET left == SecondsPerDay - last.clock
               shown == last.hours * SecondsPerHour + last.minutes * SecondsPerMinute
           IN /\ 0 <= last.minutes
              /\ last.minutes <= 59
              /\ shown <= left
              /\ left < shown + SecondsPerMinute

\* C19: an allowed chat call counts and persists its quota unit before it
\* invokes the completion capability, so when the capability fails the
\* count in memory and in the file stay incremented and remaining() is one
\* lower than before the call; and the completion invocations started on a
\* day never exceed the count of that day, in memory or in the file.
C19_NoRefund ==
    [][/\ (last'.op = "chat" /\ last'.error = "ProviderError")
            => LET before == IF date = today THEN count ELSE 0 IN
               /\ llmCalls' = llmCalls + 1
               /\ count' = before + 1
               /\ date' = today
               /\ file' = File("record", today, before + 1)
               /\ LiveRemaining' = LiveRemaining - 1
       /\ llmCalls' > 0
            => /\ tracker' = "live" => (date' = today' /\ llmCalls' <= count')
               /\ file' = File("record", today', file'.count)
               /\ llmCalls' <= file'.count]_vars

\* Both chat calls of a day with limit 2 were allowed and failed at the
\* provider: nothing was stored, the quota is spent all the same.
C19_Witness ==
    /\ last.op = "chat"
    /\ last.outcome = "raised"
    /\ last.error = "ProviderError"
    /\ limit = 2
    /\ llmCalls = 2
    /\ count = 2
    /\ file = File("record", today, 2)
    /\ LiveRemaining = 0
    /\ \A s \in SessionIds : history[s] = <<>>

\* C20: for a sequential caller, over increments, remaining queries, chat
\* calls and restarts, once an increment has succeeded on the current day
\* the file holds {today, n} with n the number of increments that succeeded
\* on that day; the count in the file never goes down within a day.
C20_ExactAccounting ==
    [][/\ granted' > 0 => file' = File("record", today', granted')
       /\ (today' = today /\ file.kind = "record" /\ file.date = today)
            => (file'.kind = "record" /\ file'.date = today
                  /\ file'.count >= file.count)]_vars

\* On the second day the second increment of the day succeeded, no chat
\* call among them, and the file holds {today, 2}.
C20_Witness ==
    /\ today = 2
    /\ last.op = "increment"
    /\ last.outcome = "true"
    /\ ~last.rolled
    /\ granted = 2
    /\ llmCalls = 0
    /\ file = File("record", today, 2)

====
